---- MODULE Spec2Model ----
(***************************************************************************)
(* A model of the DNS message codec (crates/dns/src/parse/parser.rs) and   *)
(* of the resolver entry points (crates/dns/src/resolver.rs and the legacy *)
(* dns/src/resolver.rs).                                                   *)
(*                                                                         *)
(* Bytes are the integers 0..255, a string is the sequence of its bytes    *)
(* ('.' is 46, 'a' is 97).  An Option<u16> is <<>> (None) or <<n>>         *)
(* (Some(n)).  The 512-byte packet buffer is held as a function from the   *)
(* offsets that were written to their bytes; every other offset of         *)
(* 0..511 holds 0, as in a buffer created by [0u8; 512].                   *)
(***************************************************************************)
EXTENDS Integers, Sequences, FiniteSets, TLC

VARIABLES
    pc,         \* where parse_answers (or the request builder) stands
    domain,     \* generate_request: the domain argument
    id,         \* generate_request: the id argument, an Option<u16>
    request,    \* generate_request: the bytes returned
    input,      \* history: how the packet under parse was laid out
    buf,        \* DnsParser.buf
    position,   \* DnsParser.position
    name,       \* the String parse_domain_name is filling
    nstack,     \* the active calls of parse_domain_name_rec / _inline
    entered,    \* history: where each active parse_domain_name_rec began
    nameStart,  \* history: position when parse_domain_name was called
    status,     \* "running", "ok", "panic" or "stack_overflow"
    panic,      \* the panic message once status = "panic"
    header,     \* the Header parse_header returned
    qleft,      \* iterations left of the question loop
    aleft,      \* iterations left of the answer map
    questions,  \* the Questions parsed so far
    answers,    \* the Answers collected so far
    meta,       \* the AnswerMeta of the answer under parse
    rpc,        \* resolver: where the resolve call stands
    rfn,        \* resolver: which entry point was called
    rsock,      \* resolver: whether the caller supplied a socket
    rbuflen,    \* resolver: buffer.len() of the receive buffer
    rsize,      \* resolver: the length of the datagram upstream answers with
    events,     \* resolver history: the I/O and parse events, in order
    result      \* resolver: what the call returned

buildv == <<domain, id, request, input>>
namev == <<name, nstack, entered, nameStart>>
outv == <<header, qleft, aleft, questions, answers, meta>>
pvars == <<pc, buildv, buf, position, namev, status, panic, outv>>
rvars == <<rpc, rfn, rsock, rbuflen, rsize, events, result>>
vars == <<pvars, rvars>>

---------------------------------------------------------------------------
(* Bounds of the model. *)

\* The longest domain string handed to generate_request.
MaxNameLen == 3

\* The most answer records laid out in a crafted response.
MaxRecords == 2

---------------------------------------------------------------------------
(* Program constants. *)

\* DnsPacketBuffer = [u8; 512]
BufLen == 512

\* '.', the label separator
Dot == 46

\* 0xC0 (192), the byte the decoder takes for a compression pointer
PointerByte == 192

\* 0xC000, xor-ed out of the two pointer bytes
PointerBits == 49152

---------------------------------------------------------------------------
(* Big-endian collation and bit operations. *)

RECURSIVE collate(_)
\* fold(0, |acc, byte| acc << 8 | byte): the bytes are below 256, so the
\* or adds.
collate(bytes) ==
    IF bytes = <<>> THEN 0
    ELSE (collate(SubSeq(bytes, 1, Len(bytes) - 1)) * 256) + bytes[Len(bytes)]

RECURSIVE BitXor(_, _)
\* a ^ b on unsigned integers
BitXor(a, b) ==
    IF a = 0 /\ b = 0 THEN 0
    ELSE (((a % 2) + (b % 2)) % 2) + (2 * BitXor(a \div 2, b \div 2))

\* n as u8
AsU8(n) == n % 256

---------------------------------------------------------------------------
(* encode_domain_name and generate_request. *)

RECURSIVE Split(_, _)
\* str::split(sep): the segments between the separators, empty ones kept
\* (so "" splits into one empty segment and "a." into "a" and "").
Split(s, sep) ==
    IF \A i \in 1..Len(s) : s[i] # sep THEN <<s>>
    ELSE LET i == CHOOSE j \in 1..Len(s) :
                      s[j] = sep /\ \A k \in 1..(j - 1) : s[k] # sep
         IN <<SubSeq(s, 1, i - 1)>> \o Split(SubSeq(s, i + 1, Len(s)), sep)

RECURSIVE EncodeParts(_)
\* the for_each of encode_domain_name: a length byte, then the bytes
EncodeParts(parts) ==
    IF parts = <<>> THEN <<>>
    ELSE <<AsU8(Len(parts[1]))>> \o parts[1] \o EncodeParts(Tail(parts))

encode_domain_name(domain_name) ==
    EncodeParts(Split(domain_name, Dot)) \o <<0>>

\* generate_request with the id written low byte first
generate_request_le(d, i) ==
    LET idb == IF i = <<>> THEN <<16, 1>>
               ELSE <<i[1] % 256, AsU8(i[1] \div 256)>>
        request_header == <<idb[1], idb[2], 1, 0, 0, 1, 0, 0, 0, 0, 0, 0>>
    IN request_header \o encode_domain_name(d) \o <<0, 1>> \o <<0, 1>>

generate_request(d, i) ==
    LET idb == IF i = <<>> THEN <<16, 1>>
               ELSE <<AsU8(i[1] \div 256), i[1] % 256>>
        QTYPE == <<0, 1>>
        QCLASS == <<0, 1>>
        request_header == <<idb[1], idb[2], 1, 0, 0, 1, 0, 0, 0, 0, 0, 0>>
    IN request_header \o encode_domain_name(d) \o QTYPE \o QCLASS

---------------------------------------------------------------------------
(* The byte cursor. *)

\* self.buf[i]
ByteAt(i) == IF i \in DOMAIN buf THEN buf[i] ELSE 0

\* Whether self.buf[pos..pos + n] is a slice of the buffer; the index
\* expression panics when it is not.
SliceOk(pos, n) == pos + n <= BufLen

\* self.buf[pos..pos + n]
Slice(pos, n) == [i \in 1..n |-> ByteAt(pos + i - 1)]

\* peek(n) / peek_n::<N>(), where the slice exists
peek(n) == Slice(position, n)

RECURSIVE AdvanceAll(_, _)
\* Consecutive advance_n::<N>() calls from pos, one per width: whether all
\* the slices exist, the position reached (that of the failing call when
\* one fails) and the byte arrays read.
AdvanceAll(pos, widths) ==
    IF widths = <<>> THEN [ok |-> TRUE, pos |-> pos, vals |-> <<>>]
    ELSE IF ~SliceOk(pos, widths[1])
         THEN [ok |-> FALSE, pos |-> pos, vals |-> <<>>]
         ELSE LET rest == AdvanceAll(pos + widths[1], Tail(widths))
              IN [ok |-> rest.ok, pos |-> rest.pos,
                  vals |-> <<Slice(pos, widths[1])>> \o rest.vals]

\* RecordType::from: the IANA value of the type; only A and CNAME have an
\* arm of parse_answer that is not todo!().
RecordTypeOf(n) ==
    CASE n = 1 -> "A"
      [] n = 2 -> "NS"
      [] n = 5 -> "CNAME"
      [] n = 16 -> "TXT"
      [] OTHER -> "OTHER"

---------------------------------------------------------------------------
(* The packets the parser is run on: wire-format layouts, well-formed and  *)
(* crafted.                                                                *)

U16(n) == <<(n \div 256) % 256, n % 256>>

U32(n) == U16(n \div 65536) \o U16(n % 65536)

RECURSIVE Labels(_)
\* labels on the wire, without a terminator
Labels(ls) ==
    IF ls = <<>> THEN <<>>
    ELSE <<Len(ls[1])>> \o ls[1] \o Labels(Tail(ls))

\* a compression pointer to offset t
Ptr(t) == <<192 + (t \div 256), t % 256>>

\* bytes written from offset at on, inside the buffer
Place(bytes, at) ==
    [i \in {j \in at..(at + Len(bytes) - 1) : j < BufLen} |-> bytes[i - at + 1]]

WireHeader(qd, an) ==
    U16(4660) \o U16(33152) \o U16(qd) \o U16(an) \o U16(0) \o U16(0)

RECURSIVE Dotted(_)
\* labels joined by '.'
Dotted(ls) ==
    IF ls = <<>> THEN <<>>
    ELSE IF Len(ls) = 1 THEN ls[1]
    ELSE ls[1] \o <<Dot>> \o Dotted(Tail(ls))

NoInput ==
    [kind |-> "none", segs |-> <<>>, back |-> <<>>, an |-> 0, recs |-> <<>>]

\* A name laid out as a chain of segments: segment 1 sits in the question at
\* offset 12, each segment but the last ends in a pointer to the next, and
\* the last ends in the zero byte, or, when back = <<t>>, in a pointer to t.
SegBytes(segs, back, i) ==
    Labels(segs[i].labels)
    \o (IF i < Len(segs) THEN Ptr(segs[i + 1].at)
        ELSE IF back = <<>> THEN <<0>> ELSE Ptr(back[1]))
    \o (IF i = 1 THEN U16(1) \o U16(1) ELSE <<>>)

RECURSIVE PlaceSegs(_, _, _)
PlaceSegs(segs, back, i) ==
    IF i > Len(segs) THEN <<>>
    ELSE Place(SegBytes(segs, back, i), segs[i].at) @@ PlaceSegs(segs, back, i + 1)

ChainPacket(segs, back) ==
    [bytes |-> Place(WireHeader(1, 0), 0) @@ PlaceSegs(segs, back, 1),
     desc |-> [NoInput EXCEPT !.kind = IF back = <<>> THEN "chain" ELSE "cycle",
                              !.segs = segs, !.back = back]]

LA == <<97>>
LBC == <<98, 99>>
LD == <<100>>

Seg(at, labels) == [at |-> at, labels |-> labels]

FirstSegs == {Seg(12, ls) : ls \in {<<>>, <<LA>>}}
MidSegs == {Seg(t, ls) : t \in {40, 255, 256, 300}, ls \in {<<>>, <<LBC>>}}
LastSegs == {Seg(60, ls) : ls \in {<<>>, <<LD>>}} \cup {Seg(511, <<>>)}

ChainPackets ==
    {ChainPacket(<<Seg(12, ls)>>, <<>>) : ls \in {<<>>, <<LA>>, <<LA, LBC>>}}
    \cup {ChainPacket(<<a, b>>, <<>>) : a \in FirstSegs, b \in MidSegs}
    \cup {ChainPacket(<<a, b, c>>, <<>>) :
            a \in FirstSegs, b \in MidSegs, c \in LastSegs}

CyclePackets ==
    {ChainPacket(<<a>>, <<12>>) : a \in FirstSegs}
    \cup {ChainPacket(<<a, b>>, <<t>>) :
            a \in FirstSegs,
            b \in {Seg(40, ls) : ls \in {<<>>, <<LBC>>}},
            t \in {12, 40}}

\* Packets whose bytes send the cursor to the end of the buffer: two length
\* bytes of 255 (12 + 256 = 268, 268 + 256 > 512), and a question count
\* of 101 over zero bytes (12 + 100 * 5 = 512).
OobPackets ==
    {[bytes |-> Place(WireHeader(1, 0), 0) @@ (12 :> 255) @@ (268 :> 255),
      desc |-> [NoInput EXCEPT !.kind = "oob"]],
     [bytes |-> Place(WireHeader(101, 0), 0),
      desc |-> [NoInput EXCEPT !.kind = "oob"]]}

RecKinds == {"A4", "A6", "CNAME_ptr", "CNAME_inline", "CNAME_long", "NS", "OTHER"}

RecType(k) ==
    CASE k \in {"A4", "A6"} -> 1
      [] k \in {"CNAME_ptr", "CNAME_inline", "CNAME_long"} -> 5
      [] k = "NS" -> 2
      [] OTHER -> 99

RecData(k) ==
    CASE k = "A4" -> <<93, 184, 216, 34>>
      [] k = "A6" -> <<93, 184, 216, 34, 7, 7>>
      [] k = "CNAME_ptr" -> Ptr(12)
      [] k = "CNAME_inline" -> <<1, 98, 0>>
      [] k = "CNAME_long" -> <<1, 98, 0, 9, 9>>
      [] k = "NS" -> Ptr(12)
      [] OTHER -> <<>>

\* one resource record for the name at offset 12, class IN, TTL 300, its
\* data length the length of its data
RecBytes(k) ==
    Ptr(12) \o U16(RecType(k)) \o U16(1) \o U32(300)
    \o U16(Len(RecData(k))) \o RecData(k)

RECURSIVE RecsBytes(_)
RecsBytes(ks) == IF ks = <<>> THEN <<>> ELSE RecBytes(ks[1]) \o RecsBytes(Tail(ks))

RECURSIVE SeqsUpTo(_, _)
\* the sequences over S of length 1..n
SeqsUpTo(S, n) ==
    IF n = 0 THEN {}
    ELSE {<<x>> : x \in S}
         \cup {<<x>> \o r : x \in S, r \in SeqsUpTo(S, n - 1)}

\* a response to the question a/A/IN that declares an answers and holds recs
AnswerPacket(an, recs) ==
    [bytes |-> Place(WireHeader(1, an)
                     \o Labels(<<LA>>) \o <<0>> \o U16(1) \o U16(1)
                     \o RecsBytes(recs), 0),
     desc |-> [NoInput EXCEPT !.kind = "answers", !.an = an, !.recs = recs]]

AnswerPackets ==
    {AnswerPacket(an, recs) :
        recs \in SeqsUpTo(RecKinds, MaxRecords),
        an \in 1..(MaxRecords + 1)}

Packets == ChainPackets \cup CyclePackets \cup OobPackets \cup AnswerPackets

\* the domain strings handed to generate_request
RECURSIVE StringsUpTo(_, _)
StringsUpTo(S, n) ==
    IF n = 0 THEN {<<>>}
    ELSE StringsUpTo(S, n - 1)
         \cup {<<x>> \o r : x \in S, r \in {q \in StringsUpTo(S, n - 1) : Len(q) = n - 1}}

Domains == StringsUpTo({97, 98, Dot}, MaxNameLen)

Ids == {<<>>, <<4660>>, <<65535>>}

---------------------------------------------------------------------------
(* The initial state: no parser was built and no resolve call was made.    *)

NoMeta ==
    [name |-> <<>>, type |-> 0, class |-> 0, ttl |-> <<0, 0, 0, 0>>, len |-> 0,
     from |-> 0]

NoHeader ==
    [request_id |-> 0, flags |-> 0, question_count |-> 0, answer_count |-> 0,
     authority_count |-> 0, additional_count |-> 0]

ParserIdle ==
    /\ pc = "new"
    /\ domain = <<>> /\ id = <<>> /\ request = <<>> /\ input = NoInput
    /\ buf = <<>> /\ position = 0
    /\ name = <<>> /\ nstack = <<>> /\ entered = <<>> /\ nameStart = 0
    /\ status = "running" /\ panic = ""
    /\ header = NoHeader /\ qleft = 0 /\ aleft = 0
    /\ questions = <<>> /\ answers = <<>> /\ meta = NoMeta

ResolverIdle ==
    /\ rpc = "idle" /\ rfn = "" /\ rsock = FALSE
    /\ rbuflen = 0 /\ rsize = 0 /\ events = <<>> /\ result = ""

Init == ParserIdle /\ ResolverIdle

---------------------------------------------------------------------------
(* Building a request and handing a packet to the parser.                  *)

\* generate_request(domain, id)
GenerateRequest ==
    /\ pc = "new"
    /\ \E d \in Domains, i \in Ids :
          /\ domain' = d
          /\ id' = i
          /\ request' = generate_request(d, i)
    /\ pc' = "request"
    /\ input' = [NoInput EXCEPT !.kind = "request"]
    /\ UNCHANGED <<buf, position, namev, status, panic, outv, rvars>>

\* DnsParser::new on the request, copied into a zeroed 512-byte buffer
NewOnRequest ==
    /\ pc = "request"
    /\ Len(request) <= BufLen
    /\ buf' = Place(request, 0)
    /\ position' = 0
    /\ pc' = "header"
    /\ UNCHANGED <<buildv, namev, status, panic, outv, rvars>>

\* DnsParser::new on a packet that came from the network
NewOnPacket ==
    /\ pc = "new"
    /\ \E p \in Packets :
          /\ buf' = p.bytes
          /\ input' = p.desc
    /\ position' = 0
    /\ pc' = "header"
    /\ UNCHANGED <<domain, id, request, namev, status, panic, outv, rvars>>

---------------------------------------------------------------------------
(* parse_domain_name.                                                      *)

Frame(k, old, next) == [k |-> k, old |-> old, next |-> next]

Top == nstack[Len(nstack)]

Pop == SubSeq(nstack, 1, Len(nstack) - 1)

InName == status = "running" /\ nstack # <<>>

\* A slice index out of range: the thread panics with the cursor at pos.
Panic(msg, pos) ==
    /\ status' = "panic"
    /\ panic' = msg
    /\ position' = pos

OutOfRange == "range end index out of range for slice"

\* parse_domain_name: a fresh String, then parse_domain_name_rec
CallParseDomainName ==
    /\ name' = <<>>
    /\ nstack' = <<Frame("rec", 0, 0)>>
    /\ entered' = <<position>>
    /\ nameStart' = position

\* self.parse_domain_name_rec(buf) with the cursor at pos, the callers'
\* frames being below.  A call that begins where an active call of
\* parse_domain_name_rec began repeats that call's steps (the buffer does
\* not change and no step reads the String), so the recursion never
\* returns: the thread's stack overflows.
CallRec(pos, below) ==
    IF \E i \in 1..Len(entered) : entered[i] = pos
    THEN /\ status' = "stack_overflow"
         /\ position' = pos
         /\ UNCHANGED <<nstack, entered, panic>>
    ELSE /\ position' = pos
         /\ nstack' = below \o <<Frame("rec", 0, 0)>>
         /\ entered' = Append(entered, pos)
         /\ UNCHANGED <<status, panic>>

\* parse_domain_name_rec up to its recursive call or its call of
\* parse_domain_name_inline
NameRec ==
    /\ InName /\ Top.k = "rec"
    /\ IF ~SliceOk(position, 1)
       THEN Panic(OutOfRange, position) /\ UNCHANGED <<nstack, entered>>
       ELSE IF collate(peek(1)) = PointerByte
       THEN IF ~SliceOk(position, 2)
            THEN Panic(OutOfRange, position) /\ UNCHANGED <<nstack, entered>>
            ELSE LET offset == BitXor(collate(Slice(position, 2)), PointerBits)
                     old_position == position + 2
                 IN CallRec(offset, Pop \o <<Frame("restore", old_position, 0)>>)
       ELSE /\ nstack' = Pop \o <<Frame("inline", 0, 0)>>
            /\ UNCHANGED <<position, entered, status, panic>>
    /\ UNCHANGED <<pc, buildv, buf, name, nameStart, outv, rvars>>

\* parse_domain_name_rec after its recursive call: self.position = old_position
NameRestore ==
    /\ InName /\ Top.k = "restore"
    /\ position' = Top.old
    /\ nstack' = Pop
    /\ UNCHANGED <<pc, buildv, buf, name, entered, nameStart, status, panic,
                   outv, rvars>>

\* parse_domain_name_inline up to its loop
NameInline ==
    /\ InName /\ Top.k = "inline"
    /\ IF ~SliceOk(position, 1)
       THEN Panic(OutOfRange, position) /\ UNCHANGED nstack
       ELSE LET next == collate(peek(1))
            IN /\ nstack' = IF next = PointerByte THEN Pop
                            ELSE Pop \o <<Frame("loop", 0, next)>>
               /\ UNCHANGED <<position, status, panic>>
    /\ UNCHANGED <<pc, buildv, buf, name, entered, nameStart, outv, rvars>>

\* one iteration of the loop of parse_domain_name_inline
NameLabel ==
    /\ InName /\ Top.k = "loop"
    /\ Top.next > 0 /\ Top.next # PointerByte
    /\ LET len == Top.next
           at == position + 1
           after == at + len
       IN IF ~SliceOk(position, 1)
          THEN Panic(OutOfRange, position) /\ UNCHANGED <<name, nstack, entered>>
          ELSE IF ~SliceOk(at, len)
          THEN Panic(OutOfRange, at) /\ UNCHANGED <<name, nstack, entered>>
          ELSE IF ~SliceOk(after, 1)
          THEN /\ Panic(OutOfRange, after)
               /\ name' = name \o Slice(at, len)
               /\ UNCHANGED <<nstack, entered>>
          ELSE LET next == ByteAt(after)
               IN /\ name' = name \o Slice(at, len)
                              \o (IF next > 0 THEN <<Dot>> ELSE <<>>)
                  /\ IF next = PointerByte
                     THEN CallRec(after, Pop)
                     ELSE /\ position' = after
                          /\ nstack' = Pop \o <<Frame("loop", 0, next)>>
                          /\ UNCHANGED <<entered, status, panic>>
    /\ UNCHANGED <<pc, buildv, buf, nameStart, outv, rvars>>

\* parse_domain_name_inline after its loop: the zero byte is skipped
NameEnd ==
    /\ InName /\ Top.k = "loop"
    /\ ~(Top.next > 0 /\ Top.next # PointerByte)
    /\ IF ~SliceOk(position, 1)
       THEN Panic(OutOfRange, position) /\ UNCHANGED nstack
       ELSE /\ position' = position + 1
            /\ nstack' = Pop
            /\ UNCHANGED <<status, panic>>
    /\ UNCHANGED <<pc, buildv, buf, name, entered, nameStart, outv, rvars>>

---------------------------------------------------------------------------
(* parse_answers: the header, the questions, the answers.                  *)

\* parse_header: six advance_n::<2>() calls
ParseHeader ==
    /\ status = "running" /\ pc = "header"
    /\ LET r == AdvanceAll(position, <<2, 2, 2, 2, 2, 2>>)
       IN IF ~r.ok
          THEN Panic(OutOfRange, r.pos) /\ UNCHANGED <<pc, header, qleft, aleft>>
          ELSE /\ header' = [request_id |-> collate(r.vals[1]) % 65536,
                             flags |-> collate(r.vals[2]) % 65536,
                             question_count |-> collate(r.vals[3]) % 65536,
                             answer_count |-> collate(r.vals[4]) % 65536,
                             authority_count |-> collate(r.vals[5]) % 65536,
                             additional_count |-> collate(r.vals[6]) % 65536]
               /\ qleft' = collate(r.vals[3]) % 65536
               /\ aleft' = collate(r.vals[4]) % 65536
               /\ position' = r.pos
               /\ pc' = "questions"
               /\ UNCHANGED <<status, panic>>
    /\ UNCHANGED <<buildv, buf, namev, questions, answers, meta, rvars>>

\* for _ in 0..header.question_count: the next parse_question begins with
\* parse_domain_name; after the last one the answers follow
NextQuestion ==
    /\ status = "running" /\ pc = "questions"
    /\ IF qleft > 0
       THEN CallParseDomainName /\ pc' = "q_name"
       ELSE pc' = "answers" /\ UNCHANGED namev
    /\ UNCHANGED <<buildv, buf, position, status, panic, outv, rvars>>

\* parse_question after the name: the type and the class
QuestionFields ==
    /\ status = "running" /\ pc = "q_name" /\ nstack = <<>>
    /\ LET r == AdvanceAll(position, <<2, 2>>)
       IN IF ~r.ok
          THEN Panic(OutOfRange, r.pos) /\ UNCHANGED <<pc, questions, qleft>>
          ELSE /\ questions' = Append(questions,
                                      [domain_name |-> name,
                                       type |-> collate(r.vals[1]),
                                       class |-> collate(r.vals[2])])
               /\ qleft' = qleft - 1
               /\ position' = r.pos
               /\ pc' = "questions"
               /\ UNCHANGED <<status, panic>>
    /\ UNCHANGED <<buildv, buf, namev, header, aleft, answers, meta, rvars>>

\* (0..header.answer_count).map(|_| self.parse_answer()): the next
\* parse_answer begins with parse_domain_name; after the last one
\* parse_answers returns Ok(answers)
NextAnswer ==
    /\ status = "running" /\ pc = "answers"
    /\ IF aleft > 0
       THEN CallParseDomainName /\ pc' = "a_name" /\ UNCHANGED status
       ELSE pc' = "done" /\ status' = "ok" /\ UNCHANGED namev
    /\ UNCHANGED <<buildv, buf, position, panic, outv, rvars>>

\* parse_answer after the name: type, class, TTL and data length.  The TTL
\* is kept as the four bytes read: no step depends on its value.
AnswerMeta ==
    /\ status = "running" /\ pc = "a_name" /\ nstack = <<>>
    /\ LET r == AdvanceAll(position, <<2, 2, 4, 2>>)
       IN IF ~r.ok
          THEN Panic(OutOfRange, r.pos) /\ UNCHANGED <<pc, meta>>
          ELSE /\ meta' = [name |-> name, type |-> collate(r.vals[1]),
                           class |-> collate(r.vals[2]), ttl |-> r.vals[3],
                           len |-> collate(r.vals[4]), from |-> r.pos]
               /\ position' = r.pos
               /\ pc' = "a_payload"
               /\ UNCHANGED <<status, panic>>
    /\ UNCHANGED <<buildv, buf, namev, header, qleft, aleft, questions, answers,
                   rvars>>

\* the Answer parse_answer returns, with the cursor at upto
Collect(kind, data, upto) ==
    /\ answers' = Append(answers,
                         [kind |-> kind, meta |-> meta, data |-> data, upto |-> upto])
    /\ aleft' = aleft - 1
    /\ pc' = "answers"

\* parse_answer: match record_type
AnswerPayload ==
    /\ status = "running" /\ pc = "a_payload"
    /\ LET record_type == RecordTypeOf(meta.type)
       IN IF record_type = "A"
          THEN IF ~SliceOk(position, 4)
               THEN /\ Panic(OutOfRange, position)
                    /\ UNCHANGED <<pc, namev, answers, aleft>>
               ELSE /\ Collect("A", peek(4), position + 4)
                    /\ position' = position + 4
                    /\ UNCHANGED <<namev, status, panic>>
          ELSE IF record_type = "CNAME"
          THEN /\ CallParseDomainName
               /\ pc' = "a_cname"
               /\ UNCHANGED <<position, status, panic, answers, aleft>>
          ELSE /\ Panic("not yet implemented", position)
               /\ UNCHANGED <<pc, namev, answers, aleft>>
    /\ UNCHANGED <<buildv, buf, header, qleft, questions, meta, rvars>>

\* parse_answer, the CNAME arm after its parse_domain_name
AnswerCname ==
    /\ status = "running" /\ pc = "a_cname" /\ nstack = <<>>
    /\ Collect("CNAME", name, position)
    /\ UNCHANGED <<buildv, buf, position, namev, status, panic, header, qleft,
                   questions, meta, rvars>>

ParserNext ==
    \/ GenerateRequest
    \/ NewOnRequest
    \/ NewOnPacket
    \/ ParseHeader
    \/ NextQuestion
    \/ QuestionFields
    \/ NameRec
    \/ NameRestore
    \/ NameInline
    \/ NameLabel
    \/ NameEnd
    \/ NextAnswer
    \/ AnswerMeta
    \/ AnswerPayload
    \/ AnswerCname

Spec == Init /\ [][ParserNext]_vars

---------------------------------------------------------------------------
(* The resolver entry points: resolve_domain, resolve_query and            *)
(* resolve_query_async (crates/dns/src/resolver.rs), resolve and           *)
(* resolve_pipe (dns/src/resolver.rs).  The socket, the address lookup     *)
(* and the upstream server are the environment: each of their calls        *)
(* succeeds or fails.                                                      *)

Entries ==
    {"resolve_domain", "resolve_query", "resolve_query_async", "resolve",
     "resolve_pipe"}

\* the lengths of the datagram the upstream server answers with
DatagramSizes == {0, 12, 40, 512}

\* buffer.len() of the receive buffer as it is created: 512 zeroes, or
\* Vec::with_capacity(512), which is empty
ReceiveBufferLen(fn) == IF fn = "resolve_query_async" THEN 0 ELSE BufLen

Min(a, b) == IF a < b THEN a ELSE b

\* the call, with its arguments
ResolveCall ==
    /\ rpc = "idle"
    /\ \E fn \in Entries, s \in BOOLEAN, n \in DatagramSizes :
          /\ rfn' = fn
          /\ rsock' = s
          /\ rsize' = n
    /\ rpc' = "socket"
    /\ UNCHANGED <<rbuflen, events, result, pvars>>

\* what follows the socket: resolve_query looks the address up first
AfterSocket == IF rfn = "resolve_query" THEN "addr" ELSE "send"

\* socket.unwrap_or_else(|| UdpSocket::bind(..).unwrap()): the socket given,
\* or a bound one
SocketReady ==
    /\ rpc = "socket"
    /\ rpc' = AfterSocket
    /\ UNCHANGED <<rfn, rsock, rbuflen, rsize, events, result, pvars>>

\* UdpSocket::bind(..).unwrap() on a bind that failed
BindFails ==
    /\ rpc = "socket" /\ ~rsock
    /\ rpc' = "returned"
    /\ result' = "panic"
    /\ UNCHANGED <<rfn, rsock, rbuflen, rsize, events, pvars>>

\* upstream_dns.to_socket_addrs()?.next().unwrap(), with an address
AddrResolved ==
    /\ rpc = "addr"
    /\ rpc' = "send"
    /\ UNCHANGED <<rfn, rsock, rbuflen, rsize, events, result, pvars>>

\* upstream_dns.to_socket_addrs()? on a lookup that failed
AddrFails ==
    /\ rpc = "addr"
    /\ rpc' = "returned"
    /\ result' = "Err"
    /\ UNCHANGED <<rfn, rsock, rbuflen, rsize, events, pvars>>

\* upstream_dns.to_socket_addrs()?.next().unwrap() on a lookup that gave no
\* address
AddrNone ==
    /\ rpc = "addr"
    /\ rpc' = "returned"
    /\ result' = "panic"
    /\ UNCHANGED <<rfn, rsock, rbuflen, rsize, events, pvars>>

\* socket.send_to(..) returned Ok
SendOk ==
    /\ rpc = "send"
    /\ events' = Append(events, "send_ok")
    /\ rpc' = "recv"
    /\ UNCHANGED <<rfn, rsock, rbuflen, rsize, result, pvars>>

\* if let Err(e) = socket.send_to(..) { return Err(e.into()) }
SendFails ==
    /\ rpc = "send"
    /\ events' = Append(events, "send_err")
    /\ rpc' = "returned"
    /\ result' = "Err"
    /\ UNCHANGED <<rfn, rsock, rbuflen, rsize, pvars>>

\* socket.recv_from(&mut buffer) returned Ok((datagram_size, _)), then
\* buffer.truncate(datagram_size): a datagram longer than the buffer is cut
\* to the buffer's length
RecvOk ==
    /\ rpc = "recv"
    /\ LET datagram_size == Min(rsize, ReceiveBufferLen(rfn))
       IN rbuflen' = datagram_size
    /\ events' = Append(events, "recv_ok")
    /\ rpc' = "parse"
    /\ UNCHANGED <<rfn, rsock, rsize, result, pvars>>

\* a receive failure that is answered by sending again
RecvFailsAndRetries ==
    /\ rpc = "recv"
    /\ events' = Append(events, "recv_err")
    /\ rpc' = IF Len(events) < 4 THEN "send" ELSE "returned"
    /\ result' = IF Len(events) < 4 THEN result ELSE "Err"
    /\ UNCHANGED <<rfn, rsock, rbuflen, rsize, pvars>>

\* socket.recv_from(&mut buffer).map_err(..)? on an Err
RecvFails ==
    /\ rpc = "recv"
    /\ events' = Append(events, "recv_err")
    /\ rpc' = "returned"
    /\ result' = "Err"
    /\ UNCHANGED <<rfn, rsock, rbuflen, rsize, pvars>>

\* parse_answers(buffer) (inline in resolve and resolve_pipe): Ok with the
\* answers and the buffer, or a panic of the parser
ParseResponse ==
    /\ rpc = "parse"
    /\ events' = Append(events, "parse")
    /\ rpc' = "returned"
    /\ \E r \in {"Ok", "panic"} : result' = r
    /\ UNCHANGED <<rfn, rsock, rbuflen, rsize, pvars>>

ResolverNext ==
    \/ ResolveCall
    \/ SocketReady
    \/ BindFails
    \/ AddrResolved
    \/ AddrFails
    \/ AddrNone
    \/ SendOk
    \/ SendFails
    \/ RecvOk
    \/ RecvFails
    \/ ParseResponse

SpecResolve == Init /\ [][ResolverNext]_vars

---------------------------------------------------------------------------
(* The flags word.                                                         *)

\* bits hi..lo of w
Bits(w, hi, lo) == (w \div (2 ^ lo)) % (2 ^ (hi - lo + 1))

\* Flags::from(u16): bit 15 response, bits 14-11 opcode, bit 10
\* authoritative answer, bit 9 truncated, bit 8 recursion desired, bit 7
\* recursion available, bits 6-4 reserved, bits 3-0 response code
FlagsFrom(w) ==
    [query |-> Bits(w, 15, 15) = 0,
     opcode |-> Bits(w, 14, 11),
     authoritative_answer |-> Bits(w, 10, 10) = 1,
     truncated |-> Bits(w, 9, 9) = 1,
     recursion_desired |-> Bits(w, 8, 8) = 1,
     recursion_available |-> Bits(w, 7, 7) = 1,
     reserved |-> Bits(w, 6, 4),
     response_code |-> Bits(w, 3, 0)]

---------------------------------------------------------------------------
(* What the claims speak of.                                               *)

\* parse_domain_name has returned to the caller that stands at where
NameReturned(where) == status = "running" /\ pc = where /\ nstack = <<>>

RECURSIVE AllLabels(_)
\* the labels of a chain of segments, in order
AllLabels(segs) ==
    IF segs = <<>> THEN <<>> ELSE segs[1].labels \o AllLabels(Tail(segs))

\* the segments of a dotted name that are not empty
NonEmptySegments(d) == SelectSeq(Split(d, Dot), LAMBDA part : part # <<>>)

\* a response whose records are complete A and CNAME records, their data
\* lengths those of their data
WellFormedRecords ==
    /\ input.kind = "answers"
    /\ \A i \in DOMAIN input.recs :
          input.recs[i] \in {"A4", "CNAME_ptr", "CNAME_inline"}

\* a request was built from domain and id
RequestBuilt == input.kind = "request" /\ pc # "new"

\* The query packet of generate_request: the header with the id (4097,
\* 0x1001, when none was given), a flags word with opcode 0, recursion
\* desired as rd and nothing else set, the counts 1, 0, 0, 0, then the
\* encoded name, QTYPE 1 and QCLASS 1.
QueryPacket(rd) ==
    LET f == FlagsFrom(collate(SubSeq(request, 3, 4)))
        enc == encode_domain_name(domain)
        n == Len(request)
    IN /\ n = 12 + Len(enc) + 4
       /\ collate(SubSeq(request, 1, 2)) = (IF id = <<>> THEN 4097 ELSE id[1])
       /\ f = [query |-> TRUE, opcode |-> 0, authoritative_answer |-> FALSE,
               truncated |-> FALSE, recursion_desired |-> rd,
               recursion_available |-> FALSE, reserved |-> 0,
               response_code |-> 0]
       /\ collate(SubSeq(request, 5, 6)) = 1
       /\ collate(SubSeq(request, 7, 8)) = 0
       /\ collate(SubSeq(request, 9, 10)) = 0
       /\ collate(SubSeq(request, 11, 12)) = 0
       /\ SubSeq(request, 13, 12 + Len(enc)) = enc
       /\ SubSeq(request, n - 3, n) = <<0, 1, 0, 1>>

---------------------------------------------------------------------------
(* The claims.                                                             *)

\* C1: decoding a domain name always ends, in a name or in a failure: no
\* buffer, a cyclic pointer chain included, makes parse_domain_name_rec
\* recurse without bound.
C1_DecodeTerminates == status # "stack_overflow"

\* C2: a name written as a pointer to a name stored inline at offset t,
\* alone or after inline labels, decodes without failure to the labels of
\* the whole chain joined by '.', which is what the inline encoding of the
\* name decodes to, whatever t in 0..511 is.
C2_PointerDecodesAsInline ==
    input.kind = "chain" =>
        /\ status \in {"running", "ok"}
        /\ questions # <<>> =>
              questions[1].domain_name = Dotted(AllLabels(input.segs))

\* C3: when parse_domain_name returns from a name that ends in a
\* compression pointer, the cursor is just after the two bytes of that
\* pointer, wherever the pointer leads.
C3_CursorAfterPointer ==
    (input.kind = "chain" /\ Len(input.segs) >= 2 /\ NameReturned("q_name")) =>
        position = nameStart + Len(Labels(input.segs[1].labels)) + 2

\* C4: a cursor read beyond the end of the buffer is an error value handed
\* to the caller, never a panic.
C4_ReadsNeverPanic == ~(status = "panic" /\ panic = OutOfRange)

\* C5: a packet that declares more answers than the complete records it
\* holds before its padding ends in a MalformedPacket failure, and a
\* successful parse has as many answers as the header declares.
C5_MissingAnswersFail ==
    /\ (WellFormedRecords /\ input.an > Len(input.recs)
          /\ status # "running") => status = "malformed_packet"
    /\ status = "ok" => Len(answers) = header.answer_count

\* C6: parse_answer never aborts on a record type other than A and CNAME.
C6_AnswerTotal == ~(status = "panic" /\ panic = "not yet implemented")

\* C7: every answer parse_answer returns leaves the cursor at the end of
\* the record's data: just after the data-length field plus the declared
\* data length.
C7_CursorAtNextRecord ==
    \A i \in DOMAIN answers :
        answers[i].upto = answers[i].meta.from + answers[i].meta.len

\* C8: encode_domain_name emits the non-empty segments of the name, each
\* after its length byte, then one zero byte, and the question decoded from
\* the request names those segments joined by '.'.
C8_EncodeSkipsEmptySegments ==
    RequestBuilt =>
        /\ encode_domain_name(domain) = Labels(NonEmptySegments(domain)) \o <<0>>
        /\ questions # <<>> =>
              questions[1].domain_name = Dotted(NonEmptySegments(domain))

\* C9 as stated: the request of generate_request is the query packet with
\* recursion desired unset.
C9_QueryRecursionUnset == RequestBuilt => QueryPacket(FALSE)

\* C9 as amended: the request of generate_request is the query packet with
\* the flags word 0x0100: opcode 0, recursion desired set, no other bit.
C9_QueryRecursionDesired == RequestBuilt => QueryPacket(TRUE)

\* C9, witness: a request built for "a.b" with the id 0x1234
C9_Witness ==
    /\ RequestBuilt
    /\ domain = <<97, Dot, 98>>
    /\ id = <<4660>>
    /\ request[1] = 18 /\ request[2] = 52

\* C10: within one call the events are send, then receive, then parse, each
\* at most once; a failed send or a failed receive ends the events and
\* the call returns Err.
C10_SendReceiveParse ==
    /\ events \in {<<>>, <<"send_ok">>, <<"send_err">>,
                   <<"send_ok", "recv_ok">>, <<"send_ok", "recv_err">>,
                   <<"send_ok", "recv_ok", "parse">>}
    /\ (events # <<>> /\ events[Len(events)] \in {"send_err", "recv_err"}) =>
          (rpc = "returned" /\ result = "Err")
    /\ result = "Ok" => events = <<"send_ok", "recv_ok", "parse">>

\* C10, witness: a call whose receive failed after its send
C10_Witness ==
    /\ events = <<"send_ok", "recv_err">>
    /\ rpc = "returned"
    /\ result = "Err"

\* C11: resolve_query and resolve_query_async hand the parser the same
\* bytes for the same datagram: after a successful receive of a datagram of
\* length L <= 512 the buffer either of them parses holds the L bytes
\* received.
C11_SameBytesToParser ==
    (rfn \in {"resolve_query", "resolve_query_async"}
       /\ "recv_ok" \in {events[i] : i \in DOMAIN events}) =>
        rbuflen = rsize

====
